---- MODULE Spec2Model ----
(***************************************************************************)
(* A model of uLogger's LogBuffer (sources/uLogger/inc/uLogger.hpp): the   *)
(* fixed-capacity record buffer, its typed append overloads, the           *)
(* print/routing pipeline with the console and file sinks, and the         *)
(* LOG_PRINT macro executed by concurrent threads.                         *)
(*                                                                         *)
(* Text is modelled as sequences of one-character strings.  The buffer is  *)
(* the raw char array (a function on 0..BUFFER_SIZE-1) with its NUL        *)
(* terminator, so that stale bytes left behind by reset() are visible.     *)
(***************************************************************************)
EXTENDS Integers, Sequences, FiniteSets

\* ------------------------------------------------------------------ bounds

\* Capacity of the record buffer.  The program uses 4096 (uLogger.hpp:90);
\* the model scales it down, keeping it above the largest headroom (30) so
\* that every guard of every append overload can pass and can refuse.
BUFFER_SIZE == 40

\* Total number of append calls explored by the sequential specification.
MaxAppends == 3

\* Number of records the sequential specification emits with print().
MaxRecords == 1

\* Number of print() calls explored by the sink-routing specification.
MaxSinkPrints == 1

\* Number of threads that each emit one record through LOG_PRINT.
NThreads == 2

\* Number of clock advances explored, and the microseconds of one advance.
MaxTicks == 2
TickMicros == 600

\* Components holding the logger and instances constructed.
NComponents == 2
MaxInstances == 2

\* Operations explored on the file sink, the timestamp cache and the owners.
MaxOps == 4

\* Setter calls made while the threads emit their records.
MaxSetterCalls == 1

\* Operations explored on the shared_ptr holders.
MaxOwnerOps == 6

\* ------------------------------------------------- headroom of each guard

CHAR_HEADROOM == 2
CSTR_HEADROOM == 1
BOOL_HEADROOM == 10
INT_HEADROOM == 25
HEX_HEADROOM == 25
FLOAT_HEADROOM == 30
PTR_HEADROOM == 20

\* ------------------------------------------------------------------ levels

LOG_VERBOSE == 0
LOG_DEBUG == 1
LOG_INFO == 2
LOG_WARNING == 3
LOG_ERROR == 4
LOG_FATAL == 5
LOG_FIXED == 6

LogLevel == LOG_VERBOSE..LOG_FIXED

FlushPolicy == {"ALWAYS", "ERROR_AND_ABOVE", "NEVER"}

toString(level) ==
    CASE level = LOG_VERBOSE -> <<"V", "E", "R", "B", "O", "S", "E">>
      [] level = LOG_DEBUG   -> <<" ", " ", "D", "E", "B", "U", "G">>
      [] level = LOG_INFO    -> <<" ", " ", " ", "I", "N", "F", "O">>
      [] level = LOG_WARNING -> <<"W", "A", "R", "N", "I", "N", "G">>
      [] level = LOG_ERROR   -> <<" ", " ", "E", "R", "R", "O", "R">>
      [] level = LOG_FATAL   -> <<" ", " ", "F", "A", "T", "A", "L">>
      [] level = LOG_FIXED   -> <<" ", " ", "F", "I", "X", "E", "D">>
      [] OTHER               -> <<"U", "N", "K", "N", "O", "W", "N">>

\* The colour escape sequences are modelled as one token each.
getColor(level) ==
    CASE level = LOG_VERBOSE -> "ESC[90m"
      [] level = LOG_DEBUG   -> "ESC[36m"
      [] level = LOG_INFO    -> "ESC[32m"
      [] level = LOG_WARNING -> "ESC[33m"
      [] level = LOG_ERROR   -> "ESC[31m"
      [] level = LOG_FATAL   -> "ESC[91m"
      [] level = LOG_FIXED   -> "ESC[97m"
      [] OTHER               -> "ESC[0m"

\* ------------------------------------------------------------ text helpers

NUL == "NUL"
SP == " "

Min(a, b) == IF a < b THEN a ELSE b


IsPrefix(p, s) == Len(p) <= Len(s) /\ SubSeq(s, 1, Len(p)) = p

\* Digit tables: the character of digit value d is table[d + 1].
DecDigits == <<"0", "1", "2", "3", "4", "5", "6", "7", "8", "9">>

HexDigitsUpper ==
    <<"0", "1", "2", "3", "4", "5", "6", "7", "8", "9",
      "A", "B", "C", "D", "E", "F">>

HexDigitsLower ==
    <<"0", "1", "2", "3", "4", "5", "6", "7", "8", "9",
      "a", "b", "c", "d", "e", "f">>

Digit(d) == DecDigits[d + 1]

\* A decimal number of exactly w digits (setw / %02d style zero padding).
RECURSIVE PadDec(_, _)
PadDec(n, w) == IF w = 0 THEN <<>> ELSE PadDec(n \div 10, w - 1) \o <<Digit(n % 10)>>

\* ---------------------------------------------- 64-bit and wider naturals
\* A value is a big-endian sequence of 16-bit limbs, so that 64-bit
\* integers (4 limbs) and the integer part of a double are representable.

LimbBase == 2 ^ 16

IsZero(limbs) == \A i \in 1..Len(limbs) : limbs[i] = 0

\* Long division of a limb sequence by a small divisor: <<quotient, rest>>.
RECURSIVE DivSmall(_, _, _)
DivSmall(limbs, d, carry) ==
    IF limbs = <<>> THEN <<<<>>, carry>>
    ELSE LET cur == carry * LimbBase + Head(limbs)
             r == DivSmall(Tail(limbs), d, cur % d)
         IN <<(<<cur \div d>>) \o r[1], r[2]>>

\* The digits of a limb sequence in the base of the digit table (10 or 16),
\* without leading zeros, "0" for zero.
RECURSIVE DigitsOf(_, _)
DigitsOf(limbs, table) ==
    LET qr == DivSmall(limbs, Len(table), 0)
    IN IF IsZero(qr[1]) THEN <<table[qr[2] + 1]>>
       ELSE DigitsOf(qr[1], table) \o <<table[qr[2] + 1]>>

\* Two's complement negation of a limb sequence (modulo its width).
RECURSIVE AddOne(_)
AddOne(limbs) ==
    IF limbs = <<>> THEN <<>>
    ELSE LET n == Len(limbs)
             last == limbs[n]
             init == SubSeq(limbs, 1, n - 1)
         IN IF last = LimbBase - 1 THEN AddOne(init) \o <<0>>
            ELSE init \o <<last + 1>>

Negate(limbs) == AddOne([i \in 1..Len(limbs) |-> (LimbBase - 1) - limbs[i]])

IsNegative64(limbs) == limbs[1] >= LimbBase \div 2

\* ------------------------------------------------------------- rendering
\* What each snprintf format of the append overloads produces.

\* "%c "
FormatChar(c) == <<c, SP>>

\* "%s " and "%.*s "
FormatText(text) == text \o <<SP>>

\* "%s " of "true" / "false"
FormatBool(value) ==
    (IF value THEN <<"t", "r", "u", "e">> ELSE <<"f", "a", "l", "s", "e">>) \o <<SP>>

\* "%lld " for signed types, "%zu " / "%llu " for unsigned ones, of the
\* value widened to 64 bits (v.bits).
FormatInt(v) ==
    IF v.signed /\ IsNegative64(v.bits)
    THEN <<"-">> \o DigitsOf(Negate(v.bits), DecDigits) \o <<SP>>
    ELSE DigitsOf(v.bits, DecDigits) \o <<SP>>

\* "0x%llX " / "0x%zX "
FormatHex(v) == <<"0", "x">> \o DigitsOf(v.bits, HexDigitsUpper) \o <<SP>>

\* "%.8f " of a double given by its sign, integer part and the eight
\* fraction digits of its fixed-point rendering.
FormatFloat(v) ==
    (IF v.neg THEN <<"-">> ELSE <<>>) \o DigitsOf(v.int, DecDigits)
        \o <<".">> \o PadDec(v.frac, 8) \o <<SP>>

\* "%p " (glibc): "(nil)" for the null pointer, else 0x and lowercase hex.
FormatPtr(p) ==
    IF IsZero(p) THEN <<"(", "n", "i", "l", ")", SP>>
    ELSE <<"0", "x">> \o DigitsOf(p, HexDigitsLower) \o <<SP>>

\* ------------------------------------------------------------------ state

Threads == 1..NThreads

\* The file names given to enableFileLogging: none, or a caller's name.
CustomFilename == <<"a", ".", "l", "o", "g">>
FilenameInputs == {<<>>, CustomFilename}

\* put_time "%Y%m%d" of a time within the first day of the epoch.
EpochDateCompact == <<"1", "9", "7", "0", "0", "1", "0", "1">>

\* The name enableFileLogging opens: the argument, or for an empty argument
\* "log_" put_time("%Y%m%d_%H%M%S") ".txt" of the current time.
LogFilename(filename, t) ==
    IF filename = <<>>
    THEN <<"l", "o", "g", "_">> \o EpochDateCompact \o <<"_">>
             \o PadDec((t \div 1000000) \div 3600, 2)
             \o PadDec(((t \div 1000000) \div 60) % 60, 2)
             \o PadDec((t \div 1000000) % 60, 2) \o <<".", "t", "x", "t">>
    ELSE filename

\* The files of the directory (the clock stays within the first second, so
\* one generated name), and the value of logFileName for a closed stream.
FileNames == {LogFilename(f, 0) : f \in FilenameInputs}
NoFile == <<>>

\* Holders of a shared_ptr<LogBuffer> besides the global log_local, and the
\* instances they can construct (instance 1 is made at static initialisation).
Components == 1..NComponents
Instances == 1..MaxInstances

\* The record fields of an instance after construction.
NewRecord == [logMutex |-> 0, currentLevel |-> LOG_INFO, text |-> <<>>]

\* A thread that has not chosen an operation.
NoLocals == [op |-> "none", now |-> 0, result |-> <<>>]

\* The file sink of an instance: not constructed, or just constructed.
NoInstance == [state |-> "none", logFileOpen |-> FALSE, pending |-> 0, disk |-> 0]
NewInstance == [state |-> "alive", logFileOpen |-> FALSE, pending |-> 0, disk |-> 0]

VARIABLES
    buffer,               \* char buffer[BUFFER_SIZE]
    size,                 \* size_t size
    currentLevel,         \* LogLevel currentLevel
    consoleThreshold,     \* LogLevel consoleThreshold
    fileThreshold,        \* LogLevel fileThreshold
    logFileOpen,          \* logFile.is_open()
    logFilePending,       \* lines written to logFile and not yet flushed
    logFileDisk,          \* lines flushed to each file, by file name
    logFileName,          \* the file logFile is attached to (NoFile if closed)
    logMutex,             \* 0 when free, else the thread holding it
    fileLoggingEnabled,   \* bool fileLoggingEnabled
    useColors,            \* bool useColors
    includeDate,          \* bool includeDate
    truncated,            \* bool truncated
    flushPolicy,          \* FlushPolicy flushPolicy
    cachedTimestamp,      \* std::string cachedTimestamp
    lastTimestampUpdate,  \* time_point lastTimestampUpdate (microseconds)
    now,                  \* system_clock::now() (microseconds)
    stdout,               \* what was written to standard output, per printf
    pc,                   \* position of each thread inside LOG_PRINT
    argIdx,               \* next argument of LOG_PRINT each thread evaluates
    severity,             \* SEVERITY argument of each thread's LOG_PRINT
    mainDone,             \* the main thread has run LOG_INIT
    calls,                \* append calls made since the record was last reset
    nAppends,             \* number of append calls explored
    nRecords,             \* number of records emitted
    nTicks,               \* number of clock advances explored
    nOps,                 \* number of operations explored
    op,                   \* the operation performed last
    requests,             \* getTimestamp requests made: time, result, includeDate
    started,              \* thresholds in force when each thread's record started
    log_local,            \* the instance the global shared_ptr log_local refers to
    holders,              \* the instance each component's shared_ptr refers to
    heap,                 \* file sink of every LogBuffer instance constructed
    timestampMutex,       \* 0 when free, else the thread holding it
    local,                \* each thread's operation and getTimestamp locals
    instances,            \* logMutex, currentLevel and text of every instance
    macro                 \* the instance each step of a thread's LOG_PRINT used

recordVars == <<buffer, size, currentLevel, truncated>>
configVars == <<consoleThreshold, fileThreshold, useColors, includeDate, flushPolicy>>
fileVars == <<fileLoggingEnabled, logFileOpen, logFilePending, logFileDisk, logFileName>>
timeVars == <<cachedTimestamp, lastTimestampUpdate>>
threadVars == <<logMutex, pc, argIdx, severity, mainDone>>
boundVars == <<nAppends, nRecords, nTicks>>
histVars == <<nOps, op, requests, started>>
ownerVars == <<log_local, holders, heap>>
lockVars == <<timestampMutex, local>>
raceVars == <<instances, macro>>

vars == <<recordVars, configVars, fileVars, timeVars, now, stdout, threadVars,
          calls, boundVars, histVars, ownerVars, lockVars, raceVars>>

\* The state of a LogBuffer after construction (member initialisers).
Init ==
    /\ buffer = [i \in 0..BUFFER_SIZE - 1 |-> NUL]
    /\ size = 0
    /\ currentLevel = LOG_INFO
    /\ consoleThreshold = LOG_VERBOSE
    /\ fileThreshold = LOG_VERBOSE
    /\ logFileOpen = FALSE
    /\ logFilePending = <<>>
    /\ logFileDisk = [n \in FileNames |-> <<>>]
    /\ logFileName = NoFile
    /\ logMutex = 0
    /\ fileLoggingEnabled = FALSE
    /\ useColors = TRUE
    /\ includeDate = TRUE
    /\ truncated = FALSE
    /\ flushPolicy = "ERROR_AND_ABOVE"
    /\ cachedTimestamp = <<>>
    /\ lastTimestampUpdate = 0
    /\ now = 0
    /\ stdout = <<>>
    /\ pc = [t \in Threads |-> "start"]
    /\ argIdx = [t \in Threads |-> 1]
    /\ severity = [t \in Threads |-> LOG_INFO]
    /\ mainDone = FALSE
    /\ calls = <<>>
    /\ nAppends = 0
    /\ nRecords = 0
    /\ nTicks = 0
    /\ nOps = 0
    /\ op = [name |-> "LogBuffer", arg |-> <<>>, prev |-> <<>>]
    /\ requests = <<>>
    /\ started = [t \in Threads |-> <<LOG_VERBOSE, LOG_VERBOSE>>]
    /\ log_local = 1
    /\ holders = [c \in Components |-> 0]
    /\ heap = [i \in Instances |-> IF i = 1 THEN NewInstance ELSE NoInstance]
    /\ timestampMutex = 0
    /\ local = [t \in Threads |-> NoLocals]
    /\ instances = [i \in Instances |-> NewRecord]
    /\ macro = [t \in Threads |-> [locked |-> 0, used |-> <<>>]]

\* ----------------------------------------------------------- the C string

\* The index of the first NUL at or after i (BUFFER_SIZE if there is none).
RECURSIVE FirstNul(_, _)
FirstNul(buf, i) ==
    IF i >= BUFFER_SIZE \/ buf[i] = NUL THEN i ELSE FirstNul(buf, i + 1)

\* strlen(buffer)
strlen(buf) == FirstNul(buf, 0)

\* The text `oss << buffer` reads.
CStr(buf) == [k \in 1..strlen(buf) |-> buf[k - 1]]

\* std::snprintf(buffer + at, BUFFER_SIZE - at, ...) producing `text`: at most
\* BUFFER_SIZE - at - 1 characters are stored, followed by the terminator.
\* Its return value is Len(text).
\* snprintf given `buffer` in place of `buffer + size`.
snprintf_AtStart(buf, at, text) ==
    LET stored == Min(Len(text), BUFFER_SIZE - at - 1)
    IN [i \in 0..BUFFER_SIZE - 1 |->
           IF i < stored THEN text[i + 1]
           ELSE IF i = stored THEN NUL
           ELSE buf[i]]

snprintf(buf, at, text) ==
    LET stored == Min(Len(text), BUFFER_SIZE - at - 1)
    IN [i \in 0..BUFFER_SIZE - 1 |->
           IF i >= at /\ i < at + stored THEN text[i - at + 1]
           ELSE IF i = at + stored THEN NUL
           ELSE buf[i]]

\* ------------------------------------------------------------ LogBuffer

\* reset() that forgets the truncation flag.
reset_KeepsTruncated ==
    /\ size' = 0
    /\ buffer' = [buffer EXCEPT ![0] = NUL]
    /\ currentLevel' = LOG_INFO
    /\ UNCHANGED truncated

reset ==
    /\ size' = 0
    /\ buffer' = [buffer EXCEPT ![0] = NUL]
    /\ currentLevel' = LOG_INFO
    /\ truncated' = FALSE

\* safeAppend without the clamp to the available space.
safeAppend_Unclamped(written) ==
    IF written > 0
    THEN /\ truncated' = (IF written > BUFFER_SIZE - size - 1 THEN TRUE ELSE truncated)
         /\ size' = size + written
    ELSE UNCHANGED <<size, truncated>>

safeAppend(written) ==
    IF written > 0
    THEN LET available == BUFFER_SIZE - size - 1
             toWrite == Min(written, available)
         IN /\ truncated' = (IF written > available THEN TRUE ELSE truncated)
            /\ size' = size + toWrite
    ELSE UNCHANGED <<size, truncated>>

\* The refusing branch of every guard: truncated = true; return;
Refuse == truncated' = TRUE /\ UNCHANGED <<buffer, size>>

appendChar(c) ==
    IF size >= BUFFER_SIZE - CHAR_HEADROOM
    THEN Refuse
    ELSE /\ buffer' = snprintf(buffer, size, FormatChar(c))
         /\ safeAppend(Len(FormatChar(c)))

appendCStr(isNull, text) ==
    IF isNull \/ size >= BUFFER_SIZE - CSTR_HEADROOM
    THEN /\ truncated' = (IF size >= BUFFER_SIZE - CSTR_HEADROOM THEN TRUE
                          ELSE truncated)
         /\ UNCHANGED <<buffer, size>>
    ELSE /\ buffer' = snprintf(buffer, size, FormatText(text))
         /\ safeAppend(Len(FormatText(text)))

appendString(text) ==
    IF text # <<>>
    THEN appendCStr(FALSE, text)
    ELSE UNCHANGED <<buffer, size, truncated>>

appendStringView(text) ==
    IF text # <<>>
    THEN IF Len(text) < BUFFER_SIZE - size - 1
         THEN /\ buffer' = snprintf(buffer, size, FormatText(text))
              /\ safeAppend(Len(FormatText(text)))
         ELSE Refuse
    ELSE UNCHANGED <<buffer, size, truncated>>

appendBool(value) ==
    IF size >= BUFFER_SIZE - BOOL_HEADROOM
    THEN Refuse
    ELSE /\ buffer' = snprintf(buffer, size, FormatBool(value))
         /\ safeAppend(Len(FormatBool(value)))

appendInt(v) ==
    IF size >= BUFFER_SIZE - INT_HEADROOM
    THEN Refuse
    ELSE /\ buffer' = snprintf(buffer, size, FormatInt(v))
         /\ safeAppend(Len(FormatInt(v)))

appendHex(v) ==
    IF size >= BUFFER_SIZE - HEX_HEADROOM
    THEN Refuse
    ELSE /\ buffer' = snprintf(buffer, size, FormatHex(v))
         /\ safeAppend(Len(FormatHex(v)))

appendFloat(v) ==
    IF size >= BUFFER_SIZE - FLOAT_HEADROOM
    THEN Refuse
    ELSE /\ buffer' = snprintf(buffer, size, FormatFloat(v))
         /\ safeAppend(Len(FormatFloat(v)))

appendPtr(p) ==
    IF size >= BUFFER_SIZE - PTR_HEADROOM
    THEN Refuse
    ELSE /\ buffer' = snprintf(buffer, size, FormatPtr(p))
         /\ safeAppend(Len(FormatPtr(p)))

\* ---------------------------------------------------------- timestamps

\* The clock is counted in microseconds since the epoch and stays within the
\* first day, where localtime (taken as UTC) gives the date 1970-01-01.
EpochDate == <<"1", "9", "7", "0", "-", "0", "1", "-", "0", "1">>

\* put_time "%H:%M:%S" of a time of day in seconds.
FormatTime(sec) ==
    PadDec(sec \div 3600, 2) \o <<":">> \o PadDec((sec \div 60) % 60, 2)
        \o <<":">> \o PadDec(sec % 60, 2)

\* The string getTimestamp composes for the time t.
FormatTimestamp(t, withDate) ==
    (IF withDate THEN EpochDate \o <<SP>> ELSE <<>>)
        \o FormatTime(t \div 1000000)
        \o <<".">> \o PadDec(t % 1000000, 6) \o <<SP, "|", SP>>

\* getTimestamp(): the returned string and the cache fields it leaves.
getTimestamp ==
    LET elapsed == (now - lastTimestampUpdate) \div 1000
    IN IF cachedTimestamp # <<>> /\ elapsed < 1
       THEN [result |-> cachedTimestamp,
             cachedTimestamp |-> cachedTimestamp,
             lastTimestampUpdate |-> lastTimestampUpdate]
       ELSE [result |-> FormatTimestamp(now, includeDate),
             cachedTimestamp |-> FormatTimestamp(now, includeDate),
             lastTimestampUpdate |-> now]

\* ------------------------------------------------------------- emission

\* logFile.flush(): the lines leave the stream buffer for the attached file.
WriteOut(lines) == [logFileDisk EXCEPT ![logFileName] = @ \o lines]

\* shouldFlush with ERROR itself left out of ERROR_AND_ABOVE.
shouldFlush_ErrorExcluded ==
    CASE flushPolicy = "ALWAYS" -> TRUE
      [] flushPolicy = "ERROR_AND_ABOVE" -> currentLevel > LOG_ERROR
      [] flushPolicy = "NEVER" -> FALSE
      [] OTHER -> TRUE

shouldFlush ==
    CASE flushPolicy = "ALWAYS" -> TRUE
      [] flushPolicy = "ERROR_AND_ABOVE" -> currentLevel >= LOG_ERROR
      [] flushPolicy = "NEVER" -> FALSE
      [] OTHER -> TRUE

Marker == <<SP, "[", "T", "R", "U", "N", "C", "A", "T", "E", "D", "]">>

\* The line printUnsafe composes from a timestamp and the record.
fullMessage(timestamp) ==
    timestamp \o toString(currentLevel) \o <<SP, "|", SP>> \o CStr(buffer)
        \o (IF truncated THEN Marker ELSE <<>>) \o <<"\n">>

\* The console branch of printUnsafe.
ConsoleOutput(msg) ==
    IF currentLevel >= consoleThreshold
    THEN stdout' = Append(stdout,
                          IF useColors
                          THEN <<getColor(currentLevel)>> \o msg \o <<"ESC[0m">>
                          ELSE msg)
    ELSE UNCHANGED stdout

\* The file branch gated by the console threshold instead of the file one.
FileOutput_ConsoleThreshold(msg) ==
    IF fileLoggingEnabled /\ currentLevel >= consoleThreshold /\ logFileOpen
    THEN IF shouldFlush
         THEN /\ logFileDisk' = WriteOut(Append(logFilePending, msg))
              /\ logFilePending' = <<>>
         ELSE /\ logFilePending' = Append(logFilePending, msg)
              /\ UNCHANGED logFileDisk
    ELSE UNCHANGED <<logFilePending, logFileDisk>>

\* The file branch of printUnsafe.
FileOutput(msg) ==
    IF fileLoggingEnabled /\ currentLevel >= fileThreshold /\ logFileOpen
    THEN IF shouldFlush
         THEN /\ logFileDisk' = WriteOut(Append(logFilePending, msg))
              /\ logFilePending' = <<>>
         ELSE /\ logFilePending' = Append(logFilePending, msg)
              /\ UNCHANGED logFileDisk
    ELSE UNCHANGED <<logFilePending, logFileDisk>>

printUnsafe ==
    IF /\ currentLevel < consoleThreshold
       /\ (~fileLoggingEnabled \/ currentLevel < fileThreshold)
    THEN /\ reset
         /\ UNCHANGED <<stdout, logFilePending, logFileDisk, timeVars>>
    ELSE LET ts == getTimestamp
             msg == fullMessage(ts.result)
         IN /\ cachedTimestamp' = ts.cachedTimestamp
            /\ lastTimestampUpdate' = ts.lastTimestampUpdate
            /\ ConsoleOutput(msg)
            /\ FileOutput(msg)
            /\ reset

\* --------------------------------------------------- setters, file sink

setLevel(level) == currentLevel' = level

setConsoleThreshold(level) == consoleThreshold' = level

setFileThreshold(level) == fileThreshold' = level

setFlushPolicy(policy) == flushPolicy' = policy

\* flush(): the body run under logMutex.
flush ==
    IF logFileOpen
    THEN /\ logFileDisk' = WriteOut(logFilePending)
         /\ logFilePending' = <<>>
    ELSE UNCHANGED <<logFilePending, logFileDisk>>

\* enableFileLogging that reports the sink enabled whatever open() did.
enableFileLogging_AlwaysEnabled(filename, opened) ==
    IF ~fileLoggingEnabled
    THEN /\ logFileOpen' = (logFileOpen \/ opened)
         /\ logFileName' = (IF ~logFileOpen /\ opened
                            THEN LogFilename(filename, now)
                            ELSE logFileName)
         /\ fileLoggingEnabled' = TRUE
         /\ UNCHANGED <<logFilePending, logFileDisk>>
    ELSE UNCHANGED fileVars

\* enableFileLogging that closes an open file and opens the one asked for.
enableFileLogging_Reopens(filename, opened) ==
    /\ logFileOpen' = opened
    /\ logFileName' = (IF opened THEN LogFilename(filename, now) ELSE NoFile)
    /\ fileLoggingEnabled' = opened
    /\ logFileDisk' = (IF logFileOpen THEN WriteOut(logFilePending) ELSE logFileDisk)
    /\ logFilePending' = <<>>

\* enableFileLogging(filename): opened tells whether the open succeeds.
\* open() on a stream that is already open fails and leaves it attached.
enableFileLogging(filename, opened) ==
    IF ~fileLoggingEnabled
    THEN /\ logFileOpen' = (logFileOpen \/ opened)
         /\ logFileName' = (IF ~logFileOpen /\ opened
                            THEN LogFilename(filename, now)
                            ELSE logFileName)
         /\ fileLoggingEnabled' = (logFileOpen \/ opened)
         /\ UNCHANGED <<logFilePending, logFileDisk>>
    ELSE UNCHANGED fileVars

\* disableFileLogging that closes the file without flushing the stream.
disableFileLogging_NoFlush ==
    /\ IF logFileOpen
       THEN /\ UNCHANGED logFileDisk
            /\ logFilePending' = <<>>
            /\ logFileOpen' = FALSE
            /\ logFileName' = NoFile
       ELSE UNCHANGED <<logFilePending, logFileDisk, logFileOpen, logFileName>>
    /\ fileLoggingEnabled' = FALSE

\* disableFileLogging that clears the flag and leaves the file open.
disableFileLogging_KeepsOpen ==
    /\ IF logFileOpen
       THEN /\ logFileDisk' = WriteOut(logFilePending)
            /\ logFilePending' = <<>>
            /\ UNCHANGED <<logFileOpen, logFileName>>
       ELSE UNCHANGED <<logFilePending, logFileDisk, logFileOpen, logFileName>>
    /\ fileLoggingEnabled' = FALSE

\* disableFileLogging that toggles fileLoggingEnabled instead of clearing it.
disableFileLogging_Toggle ==
    /\ IF logFileOpen
       THEN /\ logFileDisk' = WriteOut(logFilePending)
            /\ logFilePending' = <<>>
            /\ logFileOpen' = FALSE
            /\ logFileName' = NoFile
       ELSE UNCHANGED <<logFilePending, logFileDisk, logFileOpen, logFileName>>
    /\ fileLoggingEnabled' = ~fileLoggingEnabled

disableFileLogging ==
    /\ IF logFileOpen
       THEN /\ logFileDisk' = WriteOut(logFilePending)
            /\ logFilePending' = <<>>
            /\ logFileOpen' = FALSE
            /\ logFileName' = NoFile
       ELSE UNCHANGED <<logFilePending, logFileDisk, logFileOpen, logFileName>>
    /\ fileLoggingEnabled' = FALSE

\* LOG_DEINIT: log_local->flush(); log_local->disableFileLogging();  The
\* flush empties the stream buffer, so the flush inside disableFileLogging
\* finds nothing left to write.
LOG_DEINIT ==
    /\ IF logFileOpen
       THEN /\ logFileDisk' = WriteOut(logFilePending)
            /\ logFilePending' = <<>>
            /\ logFileOpen' = FALSE
            /\ logFileName' = NoFile
       ELSE UNCHANGED <<logFilePending, logFileDisk, logFileOpen, logFileName>>
    /\ fileLoggingEnabled' = FALSE

\* LOG_INIT, run by one thread with no other thread active.
LOG_INIT(consoleLevel, fileLevel, enableFile, enableColors, withDate, opened) ==
    /\ setConsoleThreshold(consoleLevel)
    /\ setFileThreshold(fileLevel)
    /\ useColors' = enableColors
    /\ includeDate' = withDate
    /\ IF enableFile THEN enableFileLogging(<<>>, opened) ELSE disableFileLogging

\* ----------------------------------------------------------------- inputs

Letters == <<"a", "b", "c", "d", "e", "f", "g", "h", "i", "j">>

\* A text of n characters.
TextOf(n) == [i \in 1..n |-> Letters[((i - 1) % Len(Letters)) + 1]]

\* The const char* arguments: empty, short, a text that with its separator
\* fills the buffer exactly, and one longer than the buffer.
TextInputs == {TextOf(n) : n \in {0, 2, BUFFER_SIZE - 2, BUFFER_SIZE + 5}}

\* The std::string arguments: empty and short.
StringInputs == {TextOf(n) : n \in {0, 2}}

\* The std::string_view arguments: empty, short, longer than the buffer.
StringViewInputs == {TextOf(n) : n \in {0, 2, BUFFER_SIZE + 5}}

CharInputs == {"x"}

BoolInputs == {FALSE}

\* INT64_MIN (int64_t) and UINT64_MAX (uint64_t), the widest renderings.
IntInputs ==
    {[signed |-> TRUE, bits |-> <<32768, 0, 0, 0>>],
     [signed |-> FALSE, bits |-> <<65535, 65535, 65535, 65535>>]}

\* 0xFFFFFFFFFFFFFFFF.
HexInputs == {[signed |-> FALSE, bits |-> <<65535, 65535, 65535, 65535>>]}

\* -1e21, whose "%.8f" rendering has 33 characters.
FloatInputs == {[neg |-> TRUE, int |-> <<54, 13769, 44485, 56992, 0>>, frac |-> 0]}

\* 0x7ffffffff000.
PtrInputs == {<<0, 32767, 65535, 61440>>}

\* An append call as recorded in `calls`: the overload, whether the argument
\* was a null pointer, and the full rendering of the value with its separator.
Call(cat, isNull, text) == [cat |-> cat, null |-> isNull, text |-> text]

\* ----------------------------------- the sequential use of one LogBuffer

AppendFrame ==
    /\ nAppends' = nAppends + 1
    /\ UNCHANGED <<currentLevel, configVars, fileVars, timeVars, now, stdout,
                   threadVars, nRecords, nTicks, histVars, ownerVars, lockVars, raceVars>>

AppendChar ==
    /\ nAppends < MaxAppends
    /\ \E c \in CharInputs :
           /\ appendChar(c)
           /\ calls' = Append(calls, Call("char", FALSE, FormatChar(c)))
           /\ AppendFrame

AppendCStr ==
    /\ nAppends < MaxAppends
    /\ \E t \in TextInputs :
           /\ appendCStr(FALSE, t)
           /\ calls' = Append(calls, Call("cstr", FALSE, FormatText(t)))
           /\ AppendFrame

AppendNull ==
    /\ nAppends < MaxAppends
    /\ appendCStr(TRUE, <<>>)
    /\ calls' = Append(calls, Call("cstr", TRUE, <<>>))
    /\ AppendFrame

AppendString ==
    /\ nAppends < MaxAppends
    /\ \E t \in StringInputs :
           /\ appendString(t)
           /\ calls' = Append(calls, Call("string", FALSE, FormatText(t)))
           /\ AppendFrame

AppendStringView ==
    /\ nAppends < MaxAppends
    /\ \E t \in StringViewInputs :
           /\ appendStringView(t)
           /\ calls' = Append(calls, Call("string_view", FALSE, FormatText(t)))
           /\ AppendFrame

AppendBool ==
    /\ nAppends < MaxAppends
    /\ \E b \in BoolInputs :
           /\ appendBool(b)
           /\ calls' = Append(calls, Call("bool", FALSE, FormatBool(b)))
           /\ AppendFrame

AppendInt ==
    /\ nAppends < MaxAppends
    /\ \E v \in IntInputs :
           /\ appendInt(v)
           /\ calls' = Append(calls, Call("int", FALSE, FormatInt(v)))
           /\ AppendFrame

AppendHex ==
    /\ nAppends < MaxAppends
    /\ \E v \in HexInputs :
           /\ appendHex(v)
           /\ calls' = Append(calls, Call("hex", FALSE, FormatHex(v)))
           /\ AppendFrame

AppendFloat ==
    /\ nAppends < MaxAppends
    /\ \E v \in FloatInputs :
           /\ appendFloat(v)
           /\ calls' = Append(calls, Call("float", FALSE, FormatFloat(v)))
           /\ AppendFrame

AppendPtr ==
    /\ nAppends < MaxAppends
    /\ \E p \in PtrInputs :
           /\ appendPtr(p)
           /\ calls' = Append(calls, Call("ptr", FALSE, FormatPtr(p)))
           /\ AppendFrame

\* print() of a record that has fields: printUnsafe under logMutex.
print ==
    /\ nRecords < MaxRecords
    /\ calls # <<>>
    /\ logMutex = 0
    /\ printUnsafe
    /\ calls' = <<>>
    /\ nRecords' = nRecords + 1
    /\ UNCHANGED <<configVars, fileLoggingEnabled, logFileOpen, logFileName, now, threadVars,
                   nAppends, nTicks, histVars, ownerVars, lockVars, raceVars>>

Next ==
    \/ AppendChar
    \/ AppendCStr
    \/ AppendNull
    \/ AppendString
    \/ AppendStringView
    \/ AppendBool
    \/ AppendInt
    \/ AppendHex
    \/ AppendFloat
    \/ AppendPtr
    \/ print

Spec == Init /\ [][Next]_vars

\* ------------------------------------- routing of records to the sinks
\* One caller configures the thresholds and the file sink, builds records of
\* at most one text field and emits them.

ThresholdInputs == {LOG_VERBOSE, LOG_WARNING, LOG_FIXED}

LevelInputs == {LOG_WARNING, LOG_FATAL}

\* A short text and one longer than the buffer.
SinkTextInputs == {TextOf(n) : n \in {2, BUFFER_SIZE + 5}}

SetConsoleThreshold ==
    \E l \in ThresholdInputs :
        /\ setConsoleThreshold(l)
        /\ UNCHANGED <<recordVars, fileThreshold, useColors, includeDate,
                       flushPolicy, fileVars, timeVars, now, stdout, threadVars,
                       calls, boundVars, histVars, ownerVars, lockVars, raceVars>>

SetFileThreshold ==
    \E l \in ThresholdInputs :
        /\ setFileThreshold(l)
        /\ UNCHANGED <<recordVars, consoleThreshold, useColors, includeDate,
                       flushPolicy, fileVars, timeVars, now, stdout, threadVars,
                       calls, boundVars, histVars, ownerVars, lockVars, raceVars>>

EnableFileLogging ==
    \E opened \in BOOLEAN :
        /\ logMutex = 0
        /\ enableFileLogging(<<>>, opened)
        /\ UNCHANGED <<recordVars, configVars, timeVars, now, stdout,
                       threadVars, calls, boundVars, histVars, ownerVars, lockVars, raceVars>>

DisableFileLogging ==
    /\ logMutex = 0
    /\ disableFileLogging
    /\ UNCHANGED <<recordVars, configVars, timeVars, now, stdout, threadVars,
                   calls, boundVars, histVars, ownerVars, lockVars, raceVars>>

SetLevel ==
    \E l \in LevelInputs :
        /\ setLevel(l)
        /\ UNCHANGED <<buffer, size, truncated, configVars, fileVars, timeVars,
                       now, stdout, threadVars, calls, boundVars, histVars, ownerVars, lockVars, raceVars>>

\* The one text field of a record.
SinkAppend ==
    /\ calls = <<>>
    /\ \E t \in SinkTextInputs :
           /\ appendCStr(FALSE, t)
           /\ calls' = Append(calls, Call("cstr", FALSE, FormatText(t)))
           /\ UNCHANGED <<currentLevel, configVars, fileVars, timeVars, now,
                          stdout, threadVars, boundVars, histVars, ownerVars, lockVars, raceVars>>

\* print(): printUnsafe under logMutex.
SinkPrint ==
    /\ nRecords < MaxSinkPrints
    /\ logMutex = 0
    /\ printUnsafe
    /\ calls' = <<>>
    /\ nRecords' = nRecords + 1
    /\ UNCHANGED <<configVars, fileLoggingEnabled, logFileOpen, logFileName, now, threadVars,
                   nAppends, nTicks, histVars, ownerVars, lockVars, raceVars>>

\* reset() called directly on a record under construction.
Reset ==
    /\ calls # <<>> \/ currentLevel # LOG_INFO
    /\ reset
    /\ calls' = <<>>
    /\ UNCHANGED <<configVars, fileVars, timeVars, now, stdout, threadVars,
                   boundVars, histVars, ownerVars, lockVars, raceVars>>

SinkNext ==
    \/ SetConsoleThreshold
    \/ SetFileThreshold
    \/ EnableFileLogging
    \/ DisableFileLogging
    \/ SetLevel
    \/ SinkAppend
    \/ SinkPrint
    \/ Reset

SinkSpec == Init /\ [][SinkNext]_vars

\* ------------------------------------------ concurrent LOG_PRINT callers
\* The main thread runs LOG_INIT, then every thread of Threads emits one
\* record through LOG_PRINT(severity, LOG_CHAR(c); LOG_INT(n)) on the shared
\* instance.  Each statement of the macro expansion is one step.

\* The fields of thread t's record.
ThreadChar(t) == Letters[t]
ThreadInt(t) == [signed |-> TRUE, bits |-> <<0, 0, 0, t>>]
ThreadText(t) == FormatChar(ThreadChar(t)) \o FormatInt(ThreadInt(t))

ThreadLevels == {LOG_INFO, LOG_ERROR}

\* std::lock_guard<std::mutex> _log_guard(log_local->logMutex), taken
\* without waiting for the mutex to be free.
lock_NoExclusion(t) == logMutex' = t

\* std::lock_guard<std::mutex> _log_guard(log_local->logMutex)
lock(t) == logMutex = 0 /\ logMutex' = t

\* unlock that leaves logMutex held.
unlock_Leaked(t) == UNCHANGED logMutex

\* The end of the do { } block: _log_guard is destroyed.
unlock(t) == logMutex' = 0

MainInit ==
    /\ ~mainDone
    /\ \E fileLevel \in {LOG_VERBOSE, LOG_ERROR}, enableFile \in BOOLEAN,
          withDate \in BOOLEAN, opened \in BOOLEAN :
           LOG_INIT(LOG_VERBOSE, fileLevel, enableFile, FALSE, withDate, opened)
    /\ mainDone' = TRUE
    /\ UNCHANGED <<recordVars, flushPolicy, timeVars, now, stdout, logMutex, pc,
                   argIdx, severity, calls, boundVars, histVars, ownerVars, lockVars, raceVars>>

ThreadFrame ==
    UNCHANGED <<configVars, fileLoggingEnabled, logFileOpen, logFileName, now,
                mainDone, calls, boundVars, nOps, op, requests, ownerVars, lockVars, raceVars>>

ThreadLock(t) ==
    /\ mainDone
    /\ pc[t] = "start"
    /\ lock(t)
    /\ \E l \in ThreadLevels : severity' = [severity EXCEPT ![t] = l]
    /\ pc' = [pc EXCEPT ![t] = "setLevel"]
    /\ started' = [started EXCEPT ![t] = <<consoleThreshold, fileThreshold>>]
    /\ UNCHANGED <<recordVars, logFilePending, logFileDisk, timeVars, stdout, argIdx>>
    /\ ThreadFrame

ThreadSetLevel(t) ==
    /\ pc[t] = "setLevel"
    /\ setLevel(severity[t])
    /\ pc' = [pc EXCEPT ![t] = "args"]
    /\ UNCHANGED <<buffer, size, truncated, logFilePending, logFileDisk,
                   timeVars, stdout, logMutex, argIdx, severity, started>>
    /\ ThreadFrame

\* LOG_CHAR(c); then LOG_INT(n);
ThreadAppend(t) ==
    /\ pc[t] = "args"
    /\ IF argIdx[t] = 1
       THEN appendChar(ThreadChar(t))
       ELSE appendInt(ThreadInt(t))
    /\ argIdx' = [argIdx EXCEPT ![t] = argIdx[t] + 1]
    /\ pc' = [pc EXCEPT ![t] = IF argIdx[t] = 1 THEN "args" ELSE "print"]
    /\ UNCHANGED <<currentLevel, logFilePending, logFileDisk, timeVars, stdout,
                   logMutex, severity, started>>
    /\ ThreadFrame

ThreadPrintUnsafe(t) ==
    /\ pc[t] = "print"
    /\ printUnsafe
    /\ pc' = [pc EXCEPT ![t] = "unlock"]
    /\ UNCHANGED <<logMutex, argIdx, severity, started>>
    /\ ThreadFrame

ThreadUnlock(t) ==
    /\ pc[t] = "unlock"
    /\ unlock(t)
    /\ pc' = [pc EXCEPT ![t] = "done"]
    /\ UNCHANGED <<recordVars, logFilePending, logFileDisk, timeVars, stdout,
                   argIdx, severity, started>>
    /\ ThreadFrame

\* The system clock advances.
Tick ==
    /\ nTicks < MaxTicks
    /\ now' = now + TickMicros
    /\ nTicks' = nTicks + 1
    /\ UNCHANGED <<recordVars, configVars, fileVars, timeVars, stdout,
                   threadVars, calls, nAppends, nRecords, histVars, ownerVars, lockVars, raceVars>>

ConcNext ==
    \/ MainInit
    \/ \E t \in Threads : ThreadLock(t)
    \/ \E t \in Threads : ThreadSetLevel(t)
    \/ \E t \in Threads : ThreadAppend(t)
    \/ \E t \in Threads : ThreadPrintUnsafe(t)
    \/ \E t \in Threads : ThreadUnlock(t)
    \/ Tick

ConcSpec == Init /\ [][ConcNext]_vars

\* The history entry of an operation: its name, its argument and the
\* operation before it.
Did(name, arg) ==
    [name |-> name, arg |-> arg, prev |-> [name |-> op.name, arg |-> op.arg]]

\* ------------------------------------------- holders of the instance
\* log_local and the components' shared_ptr<LogBuffer> variables refer to
\* instances (0 is the null pointer); an instance is destroyed when the last
\* shared_ptr referring to it is released, and ~LogBuffer runs
\* disableFileLogging.  heap[i] keeps the file sink of instance i, with the
\* numbers of lines waiting in its stream and flushed to its file.

\* use_count() of instance i for given values of log_local and the holders.
UseCount(global, held, i) ==
    (IF global = i THEN 1 ELSE 0) + Cardinality({c \in Components : held[c] = i})

\* ~LogBuffer(): disableFileLogging() flushes and closes the open file.
Destroy(inst) ==
    [state |-> "destroyed", logFileOpen |-> FALSE, pending |-> 0,
     disk |-> inst.disk + inst.pending]

\* A shared_ptr to instance i is released, leaving `remaining` others.
Drop(hp, i, remaining) ==
    IF i # 0 /\ remaining = 0 /\ hp[i].state = "alive"
    THEN [hp EXCEPT ![i] = Destroy(@)]
    ELSE hp

\* std::shared_ptr<LogBuffer> getLogger() { return log_local; }
getLogger == log_local

\* setLogger that tears the previous instance down itself.
setLogger_DestroysPrevious(logger) ==
    /\ log_local' = logger
    /\ heap' = (IF log_local # 0 /\ log_local # logger /\ heap[log_local].state = "alive"
                THEN [heap EXCEPT ![log_local] = Destroy(@)]
                ELSE heap)

\* void setLogger(std::shared_ptr<LogBuffer> logger) { log_local = logger; }
setLogger(logger) ==
    /\ log_local' = logger
    /\ heap' = Drop(heap, log_local, UseCount(logger, holders, log_local))

\* Component c's variable is assigned v: what it referred to is released.
Assign(hp, c, v) ==
    /\ holders' = [holders EXCEPT ![c] = v]
    /\ heap' = Drop(hp, holders[c],
                    UseCount(log_local, [holders EXCEPT ![c] = v], holders[c]))

OwnerFrame ==
    UNCHANGED <<recordVars, configVars, fileVars, timeVars, now, stdout,
                threadVars, calls, boundVars, requests, started, lockVars,
                raceVars>>

\* holder = getLogger();
OwnGetLogger ==
    /\ nOps < MaxOwnerOps
    /\ \E c \in Components :
           /\ Assign(heap, c, getLogger)
           /\ op' = Did("getLogger", c)
    /\ nOps' = nOps + 1
    /\ UNCHANGED log_local
    /\ OwnerFrame

\* setLogger(holder);
OwnSetLogger ==
    /\ nOps < MaxOwnerOps
    /\ \E c \in Components :
           /\ setLogger(holders[c])
           /\ op' = Did("setLogger", c)
    /\ nOps' = nOps + 1
    /\ UNCHANGED holders
    /\ OwnerFrame

\* holder = std::make_shared<LogBuffer>();
OwnMakeShared ==
    /\ nOps < MaxOwnerOps
    /\ \E i \in Instances :
           /\ heap[i].state = "none"
           /\ \A j \in Instances : j < i => heap[j].state # "none"
           /\ \E c \in Components :
                  /\ Assign([heap EXCEPT ![i] = NewInstance], c, i)
                  /\ op' = Did("make_shared", c)
    /\ nOps' = nOps + 1
    /\ UNCHANGED log_local
    /\ OwnerFrame

\* holder.reset(), or the holder goes out of scope.
OwnRelease ==
    /\ nOps < MaxOwnerOps
    /\ \E c \in Components :
           /\ holders[c] # 0
           /\ Assign(heap, c, 0)
           /\ op' = Did("release", c)
    /\ nOps' = nOps + 1
    /\ UNCHANGED log_local
    /\ OwnerFrame

\* LOG_INIT(..., ENABLE_FILE = true, ...) with an open that succeeds, on the
\* instance log_local refers to.
OwnLogInit ==
    /\ nOps < MaxOwnerOps
    /\ log_local # 0
    /\ heap' = [heap EXCEPT ![log_local].logFileOpen = TRUE]
    /\ op' = Did("LOG_INIT", TRUE)
    /\ nOps' = nOps + 1
    /\ UNCHANGED <<log_local, holders>>
    /\ OwnerFrame

\* LOG_PRINT(LOG_INFO, ...) under the default flush policy: the line waits
\* in the stream of the instance log_local refers to, if its file is open.
OwnLogPrint ==
    /\ nOps < MaxOwnerOps
    /\ log_local # 0
    /\ heap' = [heap EXCEPT ![log_local].pending =
                    IF heap[log_local].logFileOpen THEN @ + 1 ELSE @]
    /\ op' = Did("LOG_PRINT", <<>>)
    /\ nOps' = nOps + 1
    /\ UNCHANGED <<log_local, holders>>
    /\ OwnerFrame

OwnerNext ==
    \/ OwnGetLogger
    \/ OwnSetLogger
    \/ OwnMakeShared
    \/ OwnRelease
    \/ OwnLogInit
    \/ OwnLogPrint

OwnerSpec == Init /\ [][OwnerNext]_vars

\* ----------------------------------------- the two locks of an instance
\* Every thread of Threads runs one operation on the shared instance.  A
\* step ends where the thread may have to wait: at the constructor of a
\* lock_guard on logMutex or on timestampMutex.

LockOps == {"LOG_PRINT", "print", "flush", "setFlushPolicy",
            "enableFileLogging", "disableFileLogging", "getTimestamp"}

\* The thread moves to position p.
Goto(t, p) == pc' = [pc EXCEPT ![t] = p]

LockFrame ==
    UNCHANGED <<now, argIdx, severity, mainDone, calls, boundVars, histVars,
                ownerVars, raceVars>>

\* The thread calls one of the operations.
LockCall(t) ==
    /\ pc[t] = "start"
    /\ \E o \in LockOps :
           /\ local' = [local EXCEPT ![t].op = o]
           /\ Goto(t, IF o = "getTimestamp" THEN "getTimestamp" ELSE "lockLog")
    /\ UNCHANGED <<recordVars, configVars, fileVars, timeVars, stdout, logMutex,
                   timestampMutex>>
    /\ LockFrame

\* std::lock_guard<std::mutex> on logMutex: the thread waits until it is free.
LockPrimary(t) ==
    /\ pc[t] = "lockLog"
    /\ lock(t)
    /\ Goto(t, IF local[t].op = "print" THEN "printUnsafe" ELSE "locked")
    /\ UNCHANGED <<recordVars, configVars, fileVars, timeVars, stdout,
                   timestampMutex, local>>
    /\ LockFrame

\* flush(): body and return.
LockFlush(t) ==
    /\ pc[t] = "locked" /\ local[t].op = "flush"
    /\ flush
    /\ unlock(t)
    /\ Goto(t, "done")
    /\ UNCHANGED <<recordVars, configVars, fileLoggingEnabled, logFileOpen,
                   logFileName, timeVars, stdout, timestampMutex, local>>
    /\ LockFrame

\* setFlushPolicy(policy): body and return.
LockSetFlushPolicy(t) ==
    /\ pc[t] = "locked" /\ local[t].op = "setFlushPolicy"
    /\ \E policy \in FlushPolicy : setFlushPolicy(policy)
    /\ unlock(t)
    /\ Goto(t, "done")
    /\ UNCHANGED <<recordVars, consoleThreshold, fileThreshold, useColors,
                   includeDate, fileVars, timeVars, stdout, timestampMutex, local>>
    /\ LockFrame

\* enableFileLogging(): body and return.
LockEnable(t) ==
    /\ pc[t] = "locked" /\ local[t].op = "enableFileLogging"
    /\ \E opened \in BOOLEAN : enableFileLogging(<<>>, opened)
    /\ unlock(t)
    /\ Goto(t, "done")
    /\ UNCHANGED <<recordVars, configVars, timeVars, stdout, timestampMutex, local>>
    /\ LockFrame

\* disableFileLogging(): body and return.
LockDisable(t) ==
    /\ pc[t] = "locked" /\ local[t].op = "disableFileLogging"
    /\ disableFileLogging
    /\ unlock(t)
    /\ Goto(t, "done")
    /\ UNCHANGED <<recordVars, configVars, timeVars, stdout, timestampMutex, local>>
    /\ LockFrame

\* LOG_PRINT(LOG_ERROR, LOG_CHAR(c)): setLevel and the argument, up to the
\* call of printUnsafe.
LockMacroArgs(t) ==
    /\ pc[t] = "locked" /\ local[t].op = "LOG_PRINT"
    /\ setLevel(LOG_ERROR)
    /\ appendChar(ThreadChar(t))
    /\ Goto(t, "printUnsafe")
    /\ UNCHANGED <<configVars, fileVars, timeVars, stdout, logMutex,
                   timestampMutex, local>>
    /\ LockFrame

\* printUnsafe(): the early exit, or on to getTimestamp().
LockPrintUnsafe(t) ==
    /\ pc[t] = "printUnsafe"
    /\ IF /\ currentLevel < consoleThreshold
          /\ (~fileLoggingEnabled \/ currentLevel < fileThreshold)
       THEN /\ reset
            /\ unlock(t)
            /\ Goto(t, "done")
       ELSE /\ Goto(t, "getTimestamp")
            /\ UNCHANGED <<recordVars, logMutex>>
    /\ UNCHANGED <<configVars, fileVars, timeVars, stdout, timestampMutex, local>>
    /\ LockFrame

\* getTimestamp(): auto now = system_clock::now();
LockGetTimestamp(t) ==
    /\ pc[t] = "getTimestamp"
    /\ local' = [local EXCEPT ![t].now = now]
    /\ Goto(t, "lockCache")
    /\ UNCHANGED <<recordVars, configVars, fileVars, timeVars, stdout, logMutex,
                   timestampMutex>>
    /\ LockFrame

\* std::lock_guard<std::mutex> on timestampMutex, at either of its two places.
LockTimestamp(t) ==
    /\ pc[t] \in {"lockCache", "lockUpdate"}
    /\ timestampMutex = 0
    /\ timestampMutex' = t
    /\ Goto(t, IF pc[t] = "lockCache" THEN "cache" ELSE "update")
    /\ UNCHANGED <<recordVars, configVars, fileVars, timeVars, stdout, logMutex,
                   local>>
    /\ LockFrame

\* The first locked block: return the cached string if it is fresh, else
\* leave the block and compose the string for the time read at entry.
LockCacheLookup(t) ==
    /\ pc[t] = "cache"
    /\ timestampMutex' = 0
    /\ IF cachedTimestamp # <<>> /\ (local[t].now - lastTimestampUpdate) \div 1000 < 1
       THEN /\ local' = [local EXCEPT ![t].result = cachedTimestamp]
            /\ Goto(t, "return")
       ELSE /\ local' = [local EXCEPT
                            ![t].result = FormatTimestamp(local[t].now, includeDate)]
            /\ Goto(t, "lockUpdate")
    /\ UNCHANGED <<recordVars, configVars, fileVars, timeVars, stdout, logMutex>>
    /\ LockFrame

\* The second locked block: update the cache.
LockCacheUpdate(t) ==
    /\ pc[t] = "update"
    /\ cachedTimestamp' = local[t].result
    /\ lastTimestampUpdate' = local[t].now
    /\ timestampMutex' = 0
    /\ Goto(t, "return")
    /\ UNCHANGED <<recordVars, configVars, fileVars, stdout, logMutex, local>>
    /\ LockFrame

\* getTimestamp() returns to its caller; called from printUnsafe, the line is
\* composed and written, the record reset and logMutex released.
LockReturn(t) ==
    /\ pc[t] = "return"
    /\ IF local[t].op = "getTimestamp"
       THEN UNCHANGED <<recordVars, stdout, logFilePending, logFileDisk, logMutex>>
       ELSE /\ ConsoleOutput(fullMessage(local[t].result))
            /\ FileOutput(fullMessage(local[t].result))
            /\ reset
            /\ unlock(t)
    /\ Goto(t, "done")
    /\ UNCHANGED <<configVars, fileLoggingEnabled, logFileOpen, logFileName,
                   timeVars, timestampMutex, local>>
    /\ LockFrame

LockStep(t) ==
    \/ LockCall(t)
    \/ LockPrimary(t)
    \/ LockFlush(t)
    \/ LockSetFlushPolicy(t)
    \/ LockEnable(t)
    \/ LockDisable(t)
    \/ LockMacroArgs(t)
    \/ LockPrintUnsafe(t)
    \/ LockGetTimestamp(t)
    \/ LockTimestamp(t)
    \/ LockCacheLookup(t)
    \/ LockCacheUpdate(t)
    \/ LockReturn(t)

LockNext == \E t \in Threads : LockStep(t)

\* Every thread that can take a step eventually takes one.
LockSpec == Init /\ [][LockNext]_vars /\ \A t \in Threads : WF_vars(LockStep(t))

\* ------------------------------- LOG_PRINT while log_local is replaced
\* Every thread of Threads runs LOG_PRINT(LOG_ERROR, LOG_CHAR(c)) while the
\* components make instances, pass them to setLogger and release them.  Each
\* statement of the macro reads log_local again; a statement that finds it
\* null dereferences a null pointer and the thread goes no further.

RaceFrame ==
    UNCHANGED <<recordVars, configVars, fileVars, timeVars, now, logMutex,
                argIdx, severity, mainDone, calls, boundVars, histVars,
                ownerVars, lockVars>>

\* The statement of thread t has used instance i.
Used(t, i) == macro' = [macro EXCEPT ![t].used = Append(@, i)]

\* std::lock_guard<std::mutex> _log_guard(log_local->logMutex);
RaceLock(t) ==
    /\ pc[t] = "start"
    /\ log_local # 0
    /\ instances[log_local].logMutex = 0
    /\ instances' = [instances EXCEPT ![log_local].logMutex = t]
    /\ macro' = [macro EXCEPT ![t] = [locked |-> log_local, used |-> <<log_local>>]]
    /\ Goto(t, "setLevel")
    /\ UNCHANGED stdout
    /\ RaceFrame

\* log_local->setLevel(LOG_ERROR);
RaceSetLevel(t) ==
    /\ pc[t] = "setLevel"
    /\ log_local # 0
    /\ instances' = [instances EXCEPT ![log_local].currentLevel = LOG_ERROR]
    /\ Used(t, log_local)
    /\ Goto(t, "args")
    /\ UNCHANGED stdout
    /\ RaceFrame

\* LOG_CHAR(c): log_local->append(static_cast<char>(c));
RaceAppend(t) ==
    /\ pc[t] = "args"
    /\ log_local # 0
    /\ instances' = [instances EXCEPT
                        ![log_local].text = @ \o FormatChar(ThreadChar(t))]
    /\ Used(t, log_local)
    /\ Goto(t, "print")
    /\ UNCHANGED stdout
    /\ RaceFrame

\* log_local->printUnsafe(): a new instance writes every record to the
\* console, in colour and with the date, and is reset.
RacePrintUnsafe(t) ==
    /\ pc[t] = "print"
    /\ log_local # 0
    /\ stdout' = Append(stdout,
                        <<getColor(instances[log_local].currentLevel)>>
                            \o FormatTimestamp(now, TRUE)
                            \o toString(instances[log_local].currentLevel)
                            \o <<SP, "|", SP>> \o instances[log_local].text
                            \o <<"\n", "ESC[0m">>)
    /\ instances' = [instances EXCEPT ![log_local].currentLevel = LOG_INFO,
                                      ![log_local].text = <<>>]
    /\ Used(t, log_local)
    /\ Goto(t, "unlock")
    /\ RaceFrame

\* The end of the block: _log_guard unlocks the mutex it locked.  If that
\* instance has been destroyed the mutex is gone.
RaceUnlock(t) ==
    /\ pc[t] = "unlock"
    /\ instances' = IF heap[macro[t].locked].state = "alive"
                    THEN [instances EXCEPT ![macro[t].locked].logMutex = 0]
                    ELSE instances
    /\ Goto(t, "done")
    /\ UNCHANGED <<stdout, macro>>
    /\ RaceFrame

RaceNext ==
    \/ \E t \in Threads : RaceLock(t)
    \/ \E t \in Threads : RaceSetLevel(t)
    \/ \E t \in Threads : RaceAppend(t)
    \/ \E t \in Threads : RacePrintUnsafe(t)
    \/ \E t \in Threads : RaceUnlock(t)
    \/ OwnGetLogger
    \/ OwnSetLogger
    \/ OwnMakeShared
    \/ OwnRelease

RaceSpec == Init /\ [][RaceNext]_vars

\* ------------------------------- setters called while records are built
\* The threads of ConcSpec emit their records while another thread calls
\* the setters.  setConsoleThreshold and setFileThreshold take no lock and
\* run at any point; setFlushPolicy runs when logMutex is free.

SetterThresholds == {LOG_VERBOSE, LOG_FIXED}

SetterFrame ==
    UNCHANGED <<recordVars, useColors, includeDate, fileVars, timeVars, now,
                stdout, threadVars, calls, boundVars, op, requests, started,
                ownerVars, lockVars, raceVars>>

ConcSetConsoleThreshold ==
    /\ nOps < MaxSetterCalls
    /\ mainDone
    /\ \E l \in SetterThresholds : setConsoleThreshold(l)
    /\ nOps' = nOps + 1
    /\ UNCHANGED <<fileThreshold, flushPolicy>>
    /\ SetterFrame

ConcSetFileThreshold ==
    /\ nOps < MaxSetterCalls
    /\ mainDone
    /\ \E l \in SetterThresholds : setFileThreshold(l)
    /\ nOps' = nOps + 1
    /\ UNCHANGED <<consoleThreshold, flushPolicy>>
    /\ SetterFrame

ConcSetFlushPolicy ==
    /\ nOps < MaxSetterCalls
    /\ mainDone
    /\ logMutex = 0
    /\ \E policy \in FlushPolicy : setFlushPolicy(policy)
    /\ nOps' = nOps + 1
    /\ UNCHANGED <<consoleThreshold, fileThreshold>>
    /\ SetterFrame

SetterNext ==
    \/ MainInit
    \/ \E t \in Threads : ThreadLock(t)
    \/ \E t \in Threads : ThreadSetLevel(t)
    \/ \E t \in Threads : ThreadAppend(t)
    \/ \E t \in Threads : ThreadPrintUnsafe(t)
    \/ \E t \in Threads : ThreadUnlock(t)
    \/ ConcSetConsoleThreshold
    \/ ConcSetFileThreshold
    \/ ConcSetFlushPolicy

SetterSpec == Init /\ [][SetterNext]_vars

\* ------------------------------- threads driving the public methods
\* After LOG_INIT every thread of Threads builds one record by calling
\* setLevel, append(char), append(int) and print() on the shared instance,
\* without LOG_PRINT.  Each call is one step; only print() takes logMutex.

\* log_local->setLevel(severity)
DirectSetLevel(t) ==
    /\ mainDone
    /\ pc[t] = "start"
    /\ \E l \in ThreadLevels :
           /\ severity' = [severity EXCEPT ![t] = l]
           /\ setLevel(l)
    /\ pc' = [pc EXCEPT ![t] = "args"]
    /\ UNCHANGED <<buffer, size, truncated, logFilePending, logFileDisk,
                   timeVars, stdout, logMutex, argIdx, started>>
    /\ ThreadFrame

\* log_local->append(c); then log_local->append(n);
DirectAppend(t) ==
    /\ pc[t] = "args"
    /\ IF argIdx[t] = 1
       THEN appendChar(ThreadChar(t))
       ELSE appendInt(ThreadInt(t))
    /\ argIdx' = [argIdx EXCEPT ![t] = argIdx[t] + 1]
    /\ pc' = [pc EXCEPT ![t] = IF argIdx[t] = 1 THEN "args" ELSE "print"]
    /\ UNCHANGED <<currentLevel, logFilePending, logFileDisk, timeVars, stdout,
                   logMutex, severity, started>>
    /\ ThreadFrame

\* log_local->print(): printUnsafe with logMutex held from entry to return.
DirectPrint(t) ==
    /\ pc[t] = "print"
    /\ logMutex = 0
    /\ printUnsafe
    /\ pc' = [pc EXCEPT ![t] = "done"]
    /\ UNCHANGED <<logMutex, argIdx, severity, started>>
    /\ ThreadFrame

MethodNext ==
    \/ MainInit
    \/ \E t \in Threads : DirectSetLevel(t)
    \/ \E t \in Threads : DirectAppend(t)
    \/ \E t \in Threads : DirectPrint(t)

MethodSpec == Init /\ [][MethodNext]_vars

\* ------------------------------------------------ the file sink's life
\* One caller enables, disables, flushes and tears down the file sink, sets
\* the flush policy and the thresholds, and emits records of two severities.

FileLevels == {LOG_WARNING, LOG_ERROR}

FileThresholds == {LOG_VERBOSE, LOG_FATAL}

\* The instance exists, no other thread holds logMutex.
FileGuard == nOps < MaxOps /\ op.name # "~LogBuffer" /\ logMutex = 0

FileFrame == UNCHANGED <<now, threadVars, calls, boundVars, requests, started, ownerVars, lockVars, raceVars>>

FileEnable ==
    /\ FileGuard
    /\ \E filename \in FilenameInputs, opened \in BOOLEAN :
           /\ enableFileLogging(filename, opened)
           /\ op' = Did("enableFileLogging", filename)
    /\ nOps' = nOps + 1
    /\ UNCHANGED <<recordVars, configVars, timeVars, stdout>>
    /\ FileFrame

FileDisable ==
    /\ FileGuard
    /\ disableFileLogging
    /\ op' = Did("disableFileLogging", <<>>)
    /\ nOps' = nOps + 1
    /\ UNCHANGED <<recordVars, configVars, timeVars, stdout>>
    /\ FileFrame

FileFlush ==
    /\ FileGuard
    /\ flush
    /\ op' = Did("flush", <<>>)
    /\ nOps' = nOps + 1
    /\ UNCHANGED <<recordVars, configVars, timeVars, stdout, fileLoggingEnabled,
                   logFileOpen, logFileName>>
    /\ FileFrame

FileSetFlushPolicy ==
    /\ FileGuard
    /\ \E policy \in FlushPolicy :
           /\ setFlushPolicy(policy)
           /\ op' = Did("setFlushPolicy", policy)
    /\ nOps' = nOps + 1
    /\ UNCHANGED <<recordVars, consoleThreshold, fileThreshold, useColors,
                   includeDate, fileVars, timeVars, stdout>>
    /\ FileFrame

\* LOG_INIT(CONSOLE_LEVEL, FILE_LEVEL, ENABLE_FILE, false, true)
FileLogInit ==
    /\ FileGuard
    /\ \E consoleLevel \in FileThresholds, fileLevel \in FileThresholds,
          enableFile \in BOOLEAN, opened \in BOOLEAN :
           /\ enableFile \/ ~opened
           /\ LOG_INIT(consoleLevel, fileLevel, enableFile, FALSE, TRUE, opened)
           /\ op' = Did("LOG_INIT", enableFile)
    /\ nOps' = nOps + 1
    /\ UNCHANGED <<recordVars, flushPolicy, timeVars, stdout>>
    /\ FileFrame

FileLogDeinit ==
    /\ FileGuard
    /\ LOG_DEINIT
    /\ op' = Did("LOG_DEINIT", <<>>)
    /\ nOps' = nOps + 1
    /\ UNCHANGED <<recordVars, configVars, timeVars, stdout>>
    /\ FileFrame

\* ~LogBuffer(): disableFileLogging(); the instance is gone afterwards.
FileDestroy ==
    /\ FileGuard
    /\ disableFileLogging
    /\ op' = Did("~LogBuffer", <<>>)
    /\ nOps' = nOps + 1
    /\ UNCHANGED <<recordVars, configVars, timeVars, stdout>>
    /\ FileFrame

FileSetLevel ==
    /\ FileGuard
    /\ \E level \in FileLevels :
           /\ setLevel(level)
           /\ op' = Did("setLevel", level)
    /\ nOps' = nOps + 1
    /\ UNCHANGED <<buffer, size, truncated, configVars, fileVars, timeVars, stdout>>
    /\ FileFrame

\* print(): printUnsafe under logMutex.
FilePrint ==
    /\ FileGuard
    /\ printUnsafe
    /\ op' = Did("print", <<>>)
    /\ nOps' = nOps + 1
    /\ UNCHANGED <<configVars, fileLoggingEnabled, logFileOpen, logFileName>>
    /\ FileFrame

FileNext ==
    \/ FileEnable
    \/ FileDisable
    \/ FileFlush
    \/ FileSetFlushPolicy
    \/ FileLogInit
    \/ FileLogDeinit
    \/ FileDestroy
    \/ FileSetLevel
    \/ FilePrint

FileSpec == Init /\ [][FileNext]_vars

\* ------------------------------------------------ the timestamp cache
\* One caller asks for timestamps, directly and by printing, while the clock
\* advances and LOG_INIT switches the date portion on and off.

\* What the history keeps of a getTimestamp request.
Request(result) == [at |-> now, result |-> result, withDate |-> includeDate]

\* getTimestamp() called on the instance.
GetTimestamp ==
    /\ nOps < MaxOps
    /\ cachedTimestamp' = getTimestamp.cachedTimestamp
    /\ lastTimestampUpdate' = getTimestamp.lastTimestampUpdate
    /\ requests' = Append(requests, Request(getTimestamp.result))
    /\ nOps' = nOps + 1
    /\ op' = Did("getTimestamp", <<>>)
    /\ UNCHANGED <<recordVars, configVars, fileVars, now, stdout, threadVars,
                   calls, boundVars, started, ownerVars, lockVars, raceVars>>

\* LOG_INIT(LOG_VERBOSE, LOG_VERBOSE, false, false, INCLUDE_DATE)
TimeLogInit ==
    /\ nOps < MaxOps
    /\ logMutex = 0
    /\ \E withDate \in BOOLEAN :
           LOG_INIT(LOG_VERBOSE, LOG_VERBOSE, FALSE, FALSE, withDate, FALSE)
    /\ nOps' = nOps + 1
    /\ op' = Did("LOG_INIT", <<>>)
    /\ UNCHANGED <<recordVars, flushPolicy, timeVars, now, stdout, threadVars,
                   calls, boundVars, requests, started, ownerVars, lockVars, raceVars>>

\* print() of the record: printUnsafe asks for the timestamp of the line.
TimePrint ==
    /\ nOps < MaxOps
    /\ logMutex = 0
    /\ printUnsafe
    /\ requests' = Append(requests, Request(getTimestamp.result))
    /\ nOps' = nOps + 1
    /\ op' = Did("print", <<>>)
    /\ UNCHANGED <<configVars, fileLoggingEnabled, logFileOpen, logFileName, now,
                   threadVars, calls, boundVars, started, ownerVars, lockVars, raceVars>>

TimeNext ==
    \/ GetTimestamp
    \/ TimeLogInit
    \/ TimePrint
    \/ Tick

TimeSpec == Init /\ [][TimeNext]_vars

\* ============================================== claims on the record buffer

\* What an accepted append call adds to the record: nothing for a null
\* const char*, an empty std::string or an empty std::string_view, else the
\* rendering of the value followed by its separator.
Contribution(c) ==
    IF c.null \/ (c.cat \in {"string", "string_view"} /\ Len(c.text) = 1)
    THEN <<>>
    ELSE c.text

RECURSIVE Expected(_)
Expected(cs) == IF cs = <<>> THEN <<>> ELSE Contribution(Head(cs)) \o Expected(Tail(cs))

\* Total rendered width, separators included, of a sequence of calls.
TotalWidth(cs) == Len(Expected(cs))

TextCats == {"cstr", "string", "string_view"}
NonTextCats == {"char", "bool", "int", "hex", "float", "ptr"}

\* The space each overload's guard keeps free (0: the overload has no guard).
Headroom(c) ==
    CASE c.cat = "char" -> CHAR_HEADROOM
      [] c.cat = "cstr" -> CSTR_HEADROOM
      [] c.cat = "bool" -> BOOL_HEADROOM
      [] c.cat = "int" -> INT_HEADROOM
      [] c.cat = "hex" -> HEX_HEADROOM
      [] c.cat = "float" -> FLOAT_HEADROOM
      [] c.cat = "ptr" -> PTR_HEADROOM
      [] OTHER -> 0

\* Every call of cs was made with the record shorter than BUFFER_SIZE minus
\* the headroom of its overload, given that all calls before it were accepted.
WithinHeadroom(cs) ==
    \A i \in 1..Len(cs) :
        Headroom(cs[i]) > 0 =>
            TotalWidth(SubSeq(cs, 1, i - 1)) < BUFFER_SIZE - Headroom(cs[i])

\* The step is an append call; the call it made.
IsAppendStep == Len(calls') = Len(calls) + 1
TheCall == calls'[Len(calls')]

\* C3: in every reachable state 0 <= size <= BUFFER_SIZE - 1.
C3_SizeInRange == size >= 0 /\ size <= BUFFER_SIZE - 1

\* C3 witness: an append wider than the space left was clamped to it.
C3_Witness ==
    /\ size = BUFFER_SIZE - 1
    /\ truncated
    /\ \E i \in 1..Len(calls) : Len(calls[i].text) > BUFFER_SIZE

\* C4 as stated: whenever the total rendered width of the appends made on a
\* fresh record stays under capacity, every append was accepted (no null
\* argument among them): truncated is false and the record is the
\* concatenation of the renderings.
C4_Original ==
    ((\A i \in 1..Len(calls) : ~calls[i].null) /\ TotalWidth(calls) < BUFFER_SIZE)
        => (~truncated /\ CStr(buffer) = Expected(calls) /\ size = TotalWidth(calls))

\* C4 amended: when, in addition, every append is made while size is below
\* BUFFER_SIZE minus the headroom of its overload, every append is accepted:
\* truncated is false and the record is the concatenation, in call order, of
\* each value's rendering followed by one separator (a null const char*, an
\* empty std::string and an empty std::string_view contributing nothing).
C4_AcceptedWithinHeadroom ==
    (TotalWidth(calls) < BUFFER_SIZE /\ WithinHeadroom(calls))
        => (~truncated /\ CStr(buffer) = Expected(calls) /\ size = TotalWidth(calls))

\* C4 witness: a record of a text and a non-text value, both accepted.
C4_Witness ==
    /\ Len(calls) >= 2
    /\ TotalWidth(calls) < BUFFER_SIZE /\ WithinHeadroom(calls)
    /\ \E i, j \in 1..Len(calls) :
           /\ calls[i].cat \in TextCats /\ Len(calls[i].text) > 1
           /\ calls[j].cat \in NonTextCats
    /\ size = TotalWidth(calls) /\ size > 0

\* The line most recently written to standard output ends with the
\* " [TRUNCATED]" marker and the line terminator.
HasMarker(line) ==
    LET n == Len(line) - (IF useColors THEN 1 ELSE 0)
    IN /\ n > Len(Marker)
       /\ SubSeq(line, n - Len(Marker), n) = Marker \o <<"\n">>

\* C5 as stated: when a record whose appends have a total rendered width
\* above capacity is printed, the buffer holds a prefix of the concatenation
\* of the appended values, truncated is true and the emitted line carries the
\* [TRUNCATED] marker.
C5_PrefixAtPrint ==
    [][(nRecords' = nRecords + 1 /\ TotalWidth(calls) >= BUFFER_SIZE)
          => /\ IsPrefix(CStr(buffer), Expected(calls))
             /\ truncated
             /\ Len(stdout') = Len(stdout) + 1
             /\ HasMarker(stdout'[Len(stdout')])]_vars

\* C6 as stated: every non-text append either adds the whole rendering of the
\* value with its separator, or leaves buffer and size unchanged and sets
\* truncated.
C6_AllOrNothing ==
    [][(IsAppendStep /\ TheCall.cat \in NonTextCats)
          => \/ /\ CStr(buffer') = CStr(buffer) \o TheCall.text
                /\ size' = size + Len(TheCall.text)
             \/ /\ buffer' = buffer
                /\ size' = size
                /\ truncated']_vars

\* C7 as stated: a text append whose value and separator do not fit in the
\* space left writes the leading part of the text, leaves the buffer full
\* (size = BUFFER_SIZE - 1) and sets truncated.
C7_TextHardTruncated ==
    [][(/\ IsAppendStep
        /\ TheCall.cat \in TextCats
        /\ ~TheCall.null
        /\ Len(TheCall.text) > BUFFER_SIZE - size - 1)
          => /\ size' = BUFFER_SIZE - 1
             /\ truncated'
             /\ CStr(buffer') =
                    CStr(buffer) \o SubSeq(TheCall.text, 1, BUFFER_SIZE - 1 - size)]_vars

\* C8 as stated: append of a null const char* changes none of buffer, size,
\* truncated and currentLevel.
C8_NullIsNoOp ==
    [][(IsAppendStep /\ TheCall.null) => UNCHANGED <<buffer, size, truncated, currentLevel>>]_vars

\* C9 as stated: append of an empty text (const char*, std::string or
\* std::string_view) changes none of buffer, size and truncated.
C9_EmptyIsNoOp ==
    [][(/\ IsAppendStep
        /\ TheCall.cat \in TextCats
        /\ ~TheCall.null
        /\ Len(TheCall.text) = 1)
          => UNCHANGED <<buffer, size, truncated>>]_vars

\* ================================================ claims on the routing

\* The number of lines in the files of the directory.
RECURSIVE DiskLinesOf(_, _)
DiskLinesOf(disk, names) ==
    IF names = {} THEN 0
    ELSE LET n == CHOOSE x \in names : TRUE
         IN Len(disk[n]) + DiskLinesOf(disk, names \ {n})
DiskLines(disk) == DiskLinesOf(disk, FileNames)

\* The step is a print; the number of lines it wrote to the file.
IsPrintStep == nRecords' = nRecords + 1
FileLines == DiskLines(logFileDisk) + Len(logFilePending)
FileLinesAfter == DiskLines(logFileDisk') + Len(logFilePending')

\* C2: a print writes the record to the console iff currentLevel >=
\* consoleThreshold, and to the file iff fileLoggingEnabled and currentLevel
\* >= fileThreshold, each decision taken on its own threshold.
C2_IndependentSinks ==
    [][IsPrintStep =>
          /\ Len(stdout') = Len(stdout) + (IF currentLevel >= consoleThreshold THEN 1 ELSE 0)
          /\ FileLinesAfter = FileLines
                 + (IF fileLoggingEnabled /\ currentLevel >= fileThreshold THEN 1 ELSE 0)]_vars

\* C2 witness: a record was written to the file and not to the console.
C2_Witness ==
    /\ nRecords = 1
    /\ stdout = <<>>
    /\ FileLines = 1
    /\ consoleThreshold > fileThreshold

\* C10: every print ends with the record reset: size 0, empty buffer,
\* currentLevel INFO, truncated false.
C10_PrintResets ==
    [][IsPrintStep =>
          /\ size' = 0
          /\ CStr(buffer') = <<>>
          /\ currentLevel' = LOG_INFO
          /\ truncated' = FALSE]_vars

\* C10 witness: a record that had a field and was discarded by the fast path
\* (nothing on the console, nothing in the file) has been reset; its bytes
\* are still in the array behind the terminator.
C10_Witness ==
    /\ nRecords = 1
    /\ stdout = <<>>
    /\ FileLines = 0
    /\ buffer[1] # NUL
    /\ size = 0 /\ buffer[0] = NUL /\ ~truncated /\ currentLevel = LOG_INFO

\* ====================================== claims on concurrent LOG_PRINT

\* The lines the file sink received, in order.
FileContent == logFileDisk[logFileName] \o logFilePending

\* The clock values a timestamp can have been computed from.
ClockValues == {k * TickMicros : k \in 0..MaxTicks}

\* line is a complete, well-formed line of thread t's record.
IsLineOf(line, t) ==
    \E tau \in ClockValues :
        line = FormatTimestamp(tau, includeDate) \o toString(severity[t])
                   \o <<SP, "|", SP>> \o ThreadText(t) \o <<"\n">>

\* C1: when every thread has emitted its record through LOG_PRINT, with the
\* file sink enabled at a threshold admitting every record, the file holds
\* exactly one line per thread and each line holds the fields of one thread.
C1_OneLinePerThread ==
    (/\ \A t \in Threads : pc[t] = "done"
     /\ fileLoggingEnabled
     /\ \A t \in Threads : severity[t] >= fileThreshold)
        => /\ Len(FileContent) = NThreads
           /\ \A t \in Threads :
                  Cardinality({i \in 1..Len(FileContent) : IsLineOf(FileContent[i], t)}) = 1

\* C1 witness: all threads are done, the file has their lines, and the
\* thread that took the lock first was not thread 1.
C1_Witness ==
    /\ \A t \in Threads : pc[t] = "done"
    /\ fileLoggingEnabled
    /\ \A t \in Threads : severity[t] >= fileThreshold
    /\ Len(FileContent) = NThreads
    /\ IsLineOf(FileContent[1], NThreads)

\* ========================================== claims on the timestamp cache

\* The timestamp has the date portion.
HasDate(ts) == IsPrefix(EpochDate, ts)

\* C11: any two getTimestamp requests made less than 1 ms apart returned
\* the same string.
C11_SameWithinWindow ==
    \A i, j \in 1..Len(requests) :
        (i < j /\ requests[j].at - requests[i].at < 1000)
            => requests[j].result = requests[i].result

\* C12: every getTimestamp request returned a string with the date portion
\* iff includeDate was set when the request was made.
C12_DateIffIncludeDate ==
    \A i \in 1..Len(requests) : HasDate(requests[i].result) <=> requests[i].withDate

\* ================================================ claims on the file sink

\* The step is the operation called name.
IsOp(name) == nOps' = nOps + 1 /\ op'.name = name

\* The fields of the instance and what it has written.
instanceFields == <<recordVars, configVars, fileVars, timeVars, stdout>>

\* The record being printed goes to the file; the policy asks for a flush.
WrittenToFile == fileLoggingEnabled /\ currentLevel >= fileThreshold
FlushDue ==
    \/ flushPolicy = "ALWAYS"
    \/ flushPolicy = "ERROR_AND_ABOVE" /\ currentLevel \in {LOG_ERROR, LOG_FATAL, LOG_FIXED}

\* C13: a print that writes its line to the file flushes the file (the
\* stream buffer is empty afterwards and the file has grown by the waiting
\* lines and this one) iff the policy is ALWAYS, or ERROR_AND_ABOVE with a
\* severity of ERROR or more; otherwise the line waits in the stream buffer;
\* a print that does not write to the file leaves buffer and file alone.
C13_FlushByPolicy ==
    [][IsOp("print") =>
          IF WrittenToFile
          THEN IF FlushDue
               THEN /\ logFilePending' = <<>>
                    /\ DiskLines(logFileDisk') =
                           DiskLines(logFileDisk) + Len(logFilePending) + 1
               ELSE /\ Len(logFilePending') = Len(logFilePending) + 1
                    /\ logFileDisk' = logFileDisk
          ELSE UNCHANGED <<logFilePending, logFileDisk>>]_vars

\* C13 witness: under NEVER a record of severity ERROR was written to the
\* file and is still in the stream buffer.
C13_Witness ==
    /\ op.name = "print"
    /\ op.prev = [name |-> "setLevel", arg |-> LOG_ERROR]
    /\ flushPolicy = "NEVER"
    /\ Len(logFilePending) = 1
    /\ DiskLines(logFileDisk) = 0

\* The step is a shutdown of the file sink.
IsShutdown ==
    nOps' = nOps + 1 /\ op'.name \in {"LOG_DEINIT", "disableFileLogging", "~LogBuffer"}

\* C14: every shutdown (LOG_DEINIT, disableFileLogging, the destructor)
\* leaves the file closed, the sink disabled, nothing in the stream buffer,
\* and the lines that were waiting there appended to the file.
C14_ShutdownFlushes ==
    [][IsShutdown =>
          /\ ~logFileOpen'
          /\ ~fileLoggingEnabled'
          /\ logFilePending' = <<>>
          /\ logFileDisk' = (IF logFileOpen
                             THEN [logFileDisk EXCEPT ![logFileName] = @ \o logFilePending]
                             ELSE logFileDisk)
          /\ ~logFileOpen => logFilePending = <<>>]_vars

\* C14 witness: under NEVER a line was written and left unflushed, then
\* LOG_DEINIT put it in the file and closed it.
C14_Witness ==
    /\ op.name = "LOG_DEINIT"
    /\ op.prev.name = "print"
    /\ flushPolicy = "NEVER"
    /\ ~logFileOpen
    /\ logFilePending = <<>>
    /\ DiskLines(logFileDisk) = 1

\* C15: disableFileLogging on a disabled sink, flush with no file open and
\* LOG_DEINIT on a disabled sink change no field of the instance; a second
\* disableFileLogging right after a first changes nothing.
C15_NoOpWhenDisabled ==
    [][/\ (IsOp("disableFileLogging") /\ ~fileLoggingEnabled) => UNCHANGED instanceFields
       /\ (IsOp("flush") /\ ~logFileOpen) => UNCHANGED instanceFields
       /\ (IsOp("LOG_DEINIT") /\ ~fileLoggingEnabled) => UNCHANGED instanceFields
       /\ (IsOp("disableFileLogging") /\ op.name = "disableFileLogging")
              => UNCHANGED instanceFields]_vars

\* C15 witness: disableFileLogging was called twice in a row on a sink that
\* had written a line.
C15_Witness ==
    /\ op.name = "disableFileLogging"
    /\ op.prev.name = "disableFileLogging"
    /\ ~fileLoggingEnabled
    /\ DiskLines(logFileDisk) = 1

\* C16: when the open fails (directly or inside LOG_INIT) the sink stays
\* disabled and the file state is untouched; a print on a disabled sink
\* leaves the file state alone (no open is attempted) and writes to the
\* console iff currentLevel >= consoleThreshold.
C16_FailedOpenIsSilent ==
    [][/\ (IsOp("enableFileLogging") /\ ~fileLoggingEnabled /\ ~logFileOpen')
              => (~fileLoggingEnabled' /\ UNCHANGED instanceFields)
       /\ (IsOp("LOG_INIT") /\ op'.arg /\ ~fileLoggingEnabled /\ ~logFileOpen')
              => (~fileLoggingEnabled' /\ UNCHANGED fileVars)
       /\ (IsOp("print") /\ ~fileLoggingEnabled)
              => /\ UNCHANGED fileVars
                 /\ Len(stdout') = Len(stdout)
                        + (IF currentLevel >= consoleThreshold THEN 1 ELSE 0)]_vars

\* C16 witness: enableFileLogging failed, and the record printed next went
\* to the console and to no file.
C16_Witness ==
    /\ op.name = "print"
    /\ op.prev.name = "enableFileLogging"
    /\ ~fileLoggingEnabled
    /\ ~logFileOpen
    /\ Len(stdout) = 1
    /\ FileLines = 0

\* C17: enableFileLogging on an enabled sink changes nothing (inside
\* LOG_INIT: nothing of the file sink), and a print writes to no file but
\* the one the stream is attached to.
C17_EnableOnlyIfDisabled ==
    [][/\ (IsOp("enableFileLogging") /\ fileLoggingEnabled) => UNCHANGED instanceFields
       /\ (IsOp("LOG_INIT") /\ op'.arg /\ fileLoggingEnabled) => UNCHANGED fileVars
       /\ (IsOp("print") /\ fileLoggingEnabled)
              => /\ logFileName' = logFileName
                 /\ \A n \in FileNames \ {logFileName} :
                        logFileDisk'[n] = logFileDisk[n]]_vars

\* C17 witness: with the generated file open, enableFileLogging was called
\* with another name, and the record printed next went to the first file.
C17_Witness ==
    /\ op.name = "print"
    /\ op.prev = [name |-> "enableFileLogging", arg |-> CustomFilename]
    /\ fileLoggingEnabled
    /\ logFileName = LogFilename(<<>>, 0)
    /\ Len(logFilePending) = 1
    /\ logFileDisk[CustomFilename] = <<>>

\* C22: before and after every operation on the file sink,
\* fileLoggingEnabled is true iff the file is open; and a print of a record
\* admitted by the file threshold on an enabled sink adds its line to the
\* file sink.
C22_EnabledIffOpen ==
    [][/\ fileLoggingEnabled <=> logFileOpen
       /\ fileLoggingEnabled' <=> logFileOpen'
       /\ (IsOp("print") /\ WrittenToFile) => FileLinesAfter = FileLines + 1]_vars

\* C22 witness: LOG_INIT enabled the sink, and the record printed next,
\* admitted by the file threshold, is the one line of the file sink.
C22_Witness ==
    /\ op.name = "print"
    /\ op.prev = [name |-> "LOG_INIT", arg |-> TRUE]
    /\ fileLoggingEnabled
    /\ logFileOpen
    /\ fileThreshold = LOG_VERBOSE
    /\ FileLines = 1

\* ===================================== claims on setters and public methods

\* Thread t's LOG_PRINT emits (or discards) its record in this step.
EmitsRecord(t) == pc[t] = "print" /\ pc'[t] = "unlock"

\* C18: a record is routed to the console and to the file according to the
\* thresholds that were in force when its LOG_PRINT started.
C18_NotRetroactive ==
    [][\A t \in Threads :
          EmitsRecord(t) =>
              /\ Len(stdout') = Len(stdout)
                     + (IF currentLevel >= started[t][1] THEN 1 ELSE 0)
              /\ FileLinesAfter = FileLines
                     + (IF fileLoggingEnabled /\ currentLevel >= started[t][2]
                        THEN 1 ELSE 0)]_vars

\* C19: when threads build their records with setLevel, append and print(),
\* every line on the console is the complete line of one thread: that
\* thread's severity and that thread's fields.
C19_NoMixedLines ==
    \A i \in 1..Len(stdout) : \E t \in Threads : IsLineOf(stdout[i], t)

\* ============================================ claims on the shared instance

\* C20: in every step, an instance that still has a holder afterwards is not
\* destroyed, and setLogger leaves its file sink as it was; an instance whose
\* last holder is released in the step is torn down in that step: its
\* waiting lines are in its file and the file is closed.
C20_TeardownAtLastRelease ==
    [][\A i \in Instances :
          heap[i].state = "alive" =>
              IF UseCount(log_local', holders', i) > 0
              THEN /\ heap'[i].state = "alive"
                   /\ IsOp("setLogger") => heap'[i] = heap[i]
              ELSE heap'[i] = [state |-> "destroyed", logFileOpen |-> FALSE,
                               pending |-> 0,
                               disk |-> heap[i].disk + heap[i].pending]]_vars

\* C20 witness: instance 1 had an open file and a waiting line when
\* setLogger replaced it while a component still held it; the component's
\* release was the last, and the line is in the file.
C20_Witness ==
    /\ op.name = "release"
    /\ op.prev.name = "setLogger"
    /\ log_local = 2
    /\ heap[1].state = "destroyed"
    /\ heap[1].disk = 1
    /\ heap[2].state = "alive"

\* ====================================================== claims on the locks

\* C21: a thread about to take logMutex holds neither logMutex nor
\* timestampMutex, a thread about to take timestampMutex does not hold it
\* already, and every operation a thread has called returns.
C21_OperationsComplete ==
    /\ [](\A t \in Threads :
             /\ pc[t] = "lockLog" => (logMutex # t /\ timestampMutex # t)
             /\ pc[t] \in {"lockCache", "lockUpdate"} => timestampMutex # t)
    /\ \A t \in Threads : (pc[t] # "start") ~> (pc[t] = "done")

\* C21 witness: thread 1 holds logMutex inside LOG_PRINT or print and waits
\* for timestampMutex, which thread 2 holds.
C21_Witness ==
    /\ logMutex = 1
    /\ pc[1] = "lockCache"
    /\ timestampMutex = 2

\* C23: every statement of a thread's LOG_PRINT used the instance whose
\* logMutex the thread locked, and that instance is alive for as long as the
\* thread holds the lock.
C23_OneInstancePerRecord ==
    \A t \in Threads :
        /\ \A k \in 1..Len(macro[t].used) : macro[t].used[k] = macro[t].locked
        /\ pc[t] \in {"setLevel", "args", "print", "unlock"}
               => heap[macro[t].locked].state = "alive"

====
